---- MODULE Spec2Model ----
(***************************************************************************)
(* TerminalCodeExecutionProvider                                           *)
(* (src/client/terminals/codeExecution/terminalCodeExecution.ts).          *)
(*                                                                         *)
(* Strings are sequences of one-character strings, so that trim, dirname,  *)
(* the drive regular expressions and the separator replacement are         *)
(* computed character by character.  An optional value (a Uri argument,    *)
(* the workspace root path, the active interpreter) is a sequence of       *)
(* length at most one: << >> is undefined, <<v>> is the value v.           *)
(*                                                                         *)
(* Every async method is cut at its await points: the synchronous prefix   *)
(* of a call is one action, each continuation is one action.               *)
(***************************************************************************)
EXTENDS Integers, Sequences, FiniteSets

VARIABLES
    replActive,                 \* Map<string, Promise<boolean>>: key -> handle id, 0 = no entry
    handles,                    \* every Promise created at line 56, in creation order
    calls,                      \* every call made on the provider, in call order
    terminals,                  \* per resource key: the terminal service and what it received
    hasRanOutsideCurrentDrive,  \* line 20
    env                         \* platform, workspace, settings and active interpreter

vars == <<replActive, handles, calls, terminals, hasRanOutsideCurrentDrive, env>>

----------------------------------------------------------------------------
(* Bounds *)

MaxCalls == 2
MaxFileCalls == 2
MaxInfoCalls == 2

----------------------------------------------------------------------------
(* Characters and strings *)

Letters ==
    {"a","b","c","d","e","f","g","h","i","j","k","l","m",
     "n","o","p","q","r","s","t","u","v","w","x","y","z",
     "A","B","C","D","E","F","G","H","I","J","K","L","M",
     "N","O","P","Q","R","S","T","U","V","W","X","Y","Z"}

\* The white space and line terminators that String.prototype.trim() removes,
\* as far as a string of this module can hold them: space, line feed, tab,
\* carriage return, form feed, and then, written as the characters
\* themselves, vertical tab (U+000B), no-break space (U+00A0), the byte
\* order mark (U+FEFF) and the Ogham space mark (U+1680).  trim() also
\* removes U+2000 to U+200A, U+2028, U+2029, U+202F, U+205F and U+3000,
\* which cannot be written in a string here.
WhiteSpace == {" ", "\n", "\t", "\r", "\f", "", " ", "﻿", " "}

\* The line terminators that '.' of a regular expression does not match.
LineTerminators == {"\n", "\r"}

Undefined == << >>
EmptyString == << >>

\* String.prototype.trim(): drop leading and trailing white space.
RECURSIVE TrimStart(_)
TrimStart(s) ==
    IF s = << >> THEN << >>
    ELSE IF s[1] \in WhiteSpace THEN TrimStart(Tail(s))
    ELSE s

RECURSIVE TrimEnd(_)
TrimEnd(s) ==
    IF s = << >> THEN << >>
    ELSE IF s[Len(s)] \in WhiteSpace THEN TrimEnd(SubSeq(s, 1, Len(s) - 1))
    ELSE s

Trim(s) == TrimEnd(TrimStart(s))

\* A variant of the guard of execute that forgets to trim.
IsBlankCodeNoTrim(code) == Len(code) = 0

\* execute, line 42: !code || code.trim().length === 0
IsBlankCode(code) == Len(code) = 0 \/ Len(Trim(code)) = 0

\* resource?.fsPath || ''   (lines 51, 63, 66)
ResourceKey(resource) ==
    IF resource = Undefined THEN EmptyString
    ELSE IF Len(resource[1]) = 0 THEN EmptyString
    ELSE resource[1]

\* s.replace(/\\/g, '/')
RECURSIVE ReplaceBackslashes(_)
ReplaceBackslashes(s) ==
    IF s = << >> THEN << >>
    ELSE <<(IF s[1] = "\\" THEN "/" ELSE s[1])>> \o ReplaceBackslashes(Tail(s))

\* s.replace(/\:.*/g, ''): on every line, drop what runs from the first ':'
\* to the end of the line; cut is true inside such a run.
RECURSIVE StripLines(_, _)
StripLines(s, cut) ==
    IF s = << >> THEN << >>
    ELSE IF s[1] \in LineTerminators THEN <<s[1]>> \o StripLines(Tail(s), FALSE)
    ELSE IF cut \/ s[1] = ":" THEN StripLines(Tail(s), TRUE)
    ELSE <<s[1]>> \o StripLines(Tail(s), FALSE)

\* s.replace(/\:.*/g, '')   (lines 102, 104)
StripFromColon(s) == StripLines(s, FALSE)

\* /[a-z]\:/i.test(s): a letter followed by ':' anywhere in s (line 99)
HasDriveLetter(s) ==
    \E i \in 1..(Len(s) - 1) : s[i] \in Letters /\ s[i + 1] = ":"

\* path.dirname(p), line 97.  The code uses the path module of the host,
\* which is path.win32 exactly where the platform service says Windows.
\* Positions are counted from 0, as the module does.
IsPathSeparator(win, ch) == ch = "/" \/ (win /\ ch = "\\")

\* The first position from j on that holds a separator (sep) or a character
\* that is none (~sep); the length of p when there is none.
RECURSIVE ScanTo(_, _, _, _)
ScanTo(win, p, j, sep) ==
    IF j >= Len(p) THEN Len(p)
    ELSE IF IsPathSeparator(win, p[j + 1]) = sep THEN j
    ELSE ScanTo(win, p, j + 1, sep)

\* The last separator at or after offset that is followed by a character
\* that is no separator, -1 when there is none.
DirnameEnd(win, p, offset) ==
    LET ends == {i \in offset..(Len(p) - 1) :
                    /\ IsPathSeparator(win, p[i + 1])
                    /\ \E j \in (i + 1)..(Len(p) - 1) : ~IsPathSeparator(win, p[j + 1])}
    IN  IF ends = {} THEN -1
        ELSE CHOOSE i \in ends : \A j \in ends : j <= i

\* The root of a Windows path: whole says the path is a UNC root and nothing
\* more, rootEnd is -1 when the path has no root.
WinRoot(p) ==
    LET none == [whole |-> FALSE, rootEnd |-> -1, offset |-> 0]
        one  == [whole |-> FALSE, rootEnd |-> 1, offset |-> 1]
    IN  IF IsPathSeparator(TRUE, p[1])
        THEN IF ~IsPathSeparator(TRUE, p[2]) THEN one
             ELSE LET j1 == ScanTo(TRUE, p, 2, TRUE)
                      j2 == ScanTo(TRUE, p, j1, FALSE)
                      j3 == ScanTo(TRUE, p, j2, TRUE)
                  IN  IF j1 = Len(p) \/ j1 = 2 THEN one
                      ELSE IF j2 = Len(p) THEN one
                      ELSE IF j3 = Len(p) THEN [one EXCEPT !.whole = TRUE]
                      ELSE [whole |-> FALSE, rootEnd |-> j3 + 1, offset |-> j3 + 1]
        ELSE IF p[1] \in Letters /\ p[2] = ":"
        THEN LET r == IF Len(p) > 2 /\ IsPathSeparator(TRUE, p[3]) THEN 3 ELSE 2
             IN  [whole |-> FALSE, rootEnd |-> r, offset |-> r]
        ELSE none

\* path.win32.dirname(p)
DirnameWin32(p) ==
    IF Len(p) = 0 THEN <<".">>
    ELSE IF Len(p) = 1 THEN (IF IsPathSeparator(TRUE, p[1]) THEN p ELSE <<".">>)
    ELSE LET root == WinRoot(p)
             end == DirnameEnd(TRUE, p, root.offset)
         IN  IF root.whole THEN p
             ELSE IF end # -1 THEN SubSeq(p, 1, end)
             ELSE IF root.rootEnd = -1 THEN <<".">>
             ELSE SubSeq(p, 1, root.rootEnd)

\* path.posix.dirname(p)
DirnamePosix(p) ==
    IF Len(p) = 0 THEN <<".">>
    ELSE LET hasRoot == p[1] = "/"
             end == DirnameEnd(FALSE, p, 1)
         IN  IF end = -1 THEN (IF hasRoot THEN <<"/">> ELSE <<".">>)
             ELSE IF hasRoot /\ end = 1 THEN <<"/", "/">>
             ELSE SubSeq(p, 1, end)

Dirname(win, p) == IF win THEN DirnameWin32(p) ELSE DirnamePosix(p)

\* String.prototype.fileToCommandArgumentForPythonExt (common/extensions):
\* quote an argument that holds a space, '&' or a parenthesis, write
\* separators as '/'.
FileToCommandArgument(s) ==
    LET q == IF (\E i \in 1..Len(s) : s[i] \in {" ", "&", "(", ")"})
                /\ s[1] # "\"" /\ s[Len(s)] # "\""
             THEN <<"\"">> \o s \o <<"\"">>
             ELSE s
    IN  IF s = << >> THEN s ELSE ReplaceBackslashes(q)

----------------------------------------------------------------------------
(* Inputs *)

FileC == <<"C", ":", "\\", "w", "\\", "f">>
FileD == <<"D", ":", "\\", "w", "\\", "g">>
FileU == <<"/", "w", "/", "f">>

RootC == <<"C", ":", "\\", "w">>
RootD == <<"D", ":", "\\", "w">>

InterpreterWin == <<"C", ":", "\\", "p">>
InterpreterUnix == <<"/", "p">>
PythonPathSetting == <<"p", "y">>

ArgI == <<"-", "i">>
ArgM == <<"-", "m">>
ArgPath == <<"a", "\\", "b">>

CodeEmpty == << >>
\* Space, form feed, vertical tab (U+000B), line feed.
CodeWhite == <<" ", "\f", "", "\n">>
CodeX == <<"x", "\n">>

Codes == {CodeEmpty, CodeWhite, CodeX}

\* The resource argument of initializeRepl and execute: undefined or a Uri.
ReplResources == {Undefined, <<FileC>>}

Files == {FileC, FileD, FileU}

AllKeys == {EmptyString} \cup Files

----------------------------------------------------------------------------
(* The terminal service of a resource key (ITerminalService): whether its  *)
(* terminal is open, how many terminals it has had, the close observers    *)
(* registered on it and everything sent to it.  Each thing sent is stamped *)
(* with the terminal lifetime current at the send.  closedReady records    *)
(* that the last close found the key's registered handle resolved.         *)

NoTerminal ==
    [open |-> FALSE, life |-> 0, observers |-> 0, closedReady |-> FALSE, sent |-> << >>]

\* terminalServiceFactory.getTerminalService({resource, title}): get or create.
GetTerminalService(T, k) ==
    IF T[k].open THEN T
    ELSE [T EXCEPT ![k].open = TRUE, ![k].life = @ + 1]

Stamp(T, k, e) == [e EXCEPT !.life = T[k].life, !.open = T[k].open]

Deliver(T, k, e) == [T EXCEPT ![k].sent = Append(@, Stamp(T, k, e))]

\* terminalService.onDidCloseTerminal(listener)
OnDidCloseTerminal(T, k) == [T EXCEPT ![k].observers = @ + 1]

BlankEntry ==
    [kind |-> "", by |-> "", command |-> << >>, args |-> << >>, text |-> << >>,
     call |-> 0, h |-> 0, life |-> 0, open |-> FALSE]

\* terminalService.sendCommand(command, args)
CommandEntry(info, by, c, h) ==
    [BlankEntry EXCEPT !.kind = "command", !.by = by, !.command = info.command,
                       !.args = info.args, !.call = c, !.h = h]

\* terminalService.sendText(text)
TextEntry(text, by, c) ==
    [BlankEntry EXCEPT !.kind = "text", !.by = by, !.text = text, !.call = c]

\* A variant that sends a start-REPL command where the terminal is to be shown.
ShowEntryRelaunch(c, h) ==
    [BlankEntry EXCEPT !.kind = "command", !.by = "repl", !.call = c, !.h = h]

\* terminalService.show()
ShowEntry(c, h) == [BlankEntry EXCEPT !.kind = "show", !.by = "show", !.call = c, !.h = h]

----------------------------------------------------------------------------
(* getExecutableInfo, lines 73-80 *)

\* A variant that prefers the configured path over the active interpreter.
InterpreterPathSettingFirst(e) == e.pythonPath

\* line 76: interpreter?.path ?? pythonSettings.pythonPath
InterpreterPath(e) ==
    IF e.interpreter # Undefined THEN e.interpreter[1] ELSE e.pythonPath

\* A variant that leaves the separators as they are.
ExecCommandNoNormalize(e) == InterpreterPath(e)

\* line 77
ExecCommand(e) ==
    IF e.isWindows THEN ReplaceBackslashes(InterpreterPath(e)) ELSE InterpreterPath(e)

\* A variant that puts the caller's arguments first.
ExecArgsCallerFirst(e, args) == args \o e.launchArgs

\* lines 78-79: [...launchArgs, ...args]
ExecArgs(e, args) == e.launchArgs \o args

GetExecutableInfo(e, args) == [command |-> ExecCommand(e), args |-> ExecArgs(e, args)]

----------------------------------------------------------------------------
(* The session registry, line 22 *)

\* A variant that never finds an entry.
HasEntryNever(map, k) == FALSE

\* line 51-52: this.replActive.get(key) is truthy
HasEntry(map, k) == map[k] # 0

\* A variant that forgets to store the handle.
RegisterHandleDropped(map, k, h) == map

\* line 63: this.replActive.set(key, replActive)
RegisterHandle(map, k, h) == [map EXCEPT ![k] = h]

\* A variant of the close observer that leaves the entry in place.
DeleteEntryKept(map, k) == map

\* line 66: this.replActive.delete(key)
DeleteEntry(map, k) == [map EXCEPT ![k] = 0]

\* line 46: execute calls this.initializeRepl() without its resource argument
ExecuteReplResource(resource) == Undefined

----------------------------------------------------------------------------
(* Calls *)

BlankCall ==
    [op |-> "", res |-> Undefined, code |-> << >>, args |-> << >>, pc |-> "",
     key |-> EmptyString, h |-> 0, found |-> 0, launched |-> FALSE, life |-> 0,
     mark |-> 0, reopen |-> FALSE, flagBefore |-> FALSE, flagAfter |-> FALSE,
     info |-> [command |-> << >>, args |-> << >>], seen |-> << >>]

Unresolved(h) == handles[h].st \in {"lookup", "timer"}

\* The session of key k has become ready, its terminal has since been closed
\* and its registry entry is gone.
ReadyThenClosed(k) ==
    /\ replActive[k] = 0
    /\ ~terminals[k].open
    /\ terminals[k].closedReady

\* initializeRepl(resource), lines 50-70 up to its first await, run for the
\* call record rec that is being started.
BeginInitializeRepl(rec, resource) ==
    LET k == ResourceKey(resource)
        T == GetTerminalService(terminals, k)                       \* line 50
        c == [rec EXCEPT !.key = k, !.life = T[k].life, !.found = replActive[k]]
    IN  IF HasEntry(replActive, k)                                   \* lines 51-52
        THEN /\ calls' = Append(calls, [c EXCEPT !.pc = "awaitReuse", !.h = replActive[k]])
             /\ terminals' = T
             /\ UNCHANGED <<replActive, handles>>
        ELSE LET h == Len(handles) + 1
             IN  /\ handles' = Append(handles,                       \* lines 56-57
                        [key |-> k, st |-> "lookup", life |-> T[k].life])
                 /\ replActive' = RegisterHandle(replActive, k, h)   \* line 63
                 /\ terminals' = OnDidCloseTerminal(T, k)            \* lines 64-68
                 /\ calls' = Append(calls,                           \* line 70
                        [c EXCEPT !.pc = "awaitLaunch", !.h = h, !.launched = TRUE])

\* A call of initializeRepl(resource).
InitializeReplCall(resource) ==
    /\ Len(calls) < MaxCalls
    /\ BeginInitializeRepl([BlankCall EXCEPT !.op = "initializeRepl", !.res = resource],
                           resource)
    /\ UNCHANGED <<hasRanOutsideCurrentDrive, env>>

\* A call of execute(code, resource), lines 41-46.
ExecuteCall(code, resource) ==
    /\ Len(calls) < MaxCalls
    /\ LET rec == [BlankCall EXCEPT !.op = "execute", !.res = resource, !.code = code,
                                    !.mark = Len(terminals[ResourceKey(resource)].sent),
                                    !.reopen = ReadyThenClosed(ResourceKey(resource))]
       IN  IF IsBlankCode(code)
           THEN /\ calls' = Append(calls, [rec EXCEPT !.pc = "done"])
                /\ UNCHANGED <<replActive, handles, terminals>>
           ELSE BeginInitializeRepl(rec, ExecuteReplResource(resource))
    /\ UNCHANGED <<hasRanOutsideCurrentDrive, env>>

\* The interpreter lookup of a launch completes: lines 57-61.  The command is
\* sent on the terminal service captured at line 50 and the timer is started.
LookupDone(h) ==
    /\ h \in 1..Len(handles)
    /\ handles[h].st = "lookup"
    /\ terminals' = Deliver(terminals, handles[h].key,
                            CommandEntry(GetExecutableInfo(env, << >>), "repl", 0, h))
    /\ handles' = [handles EXCEPT ![h].st = "timer"]
    /\ UNCHANGED <<replActive, calls, hasRanOutsideCurrentDrive, env>>

\* A variant in which closing the terminal cancels the timer of its launch.
TimerFireUnlessClosed(h) ==
    /\ h \in 1..Len(handles)
    /\ handles[h].st = "timer"
    /\ replActive[handles[h].key] = h
    /\ handles' = [handles EXCEPT ![h].st = "resolved"]
    /\ UNCHANGED <<replActive, calls, terminals, hasRanOutsideCurrentDrive, env>>

\* The warm-up timer fires: resolve(true), line 61.
TimerFire(h) ==
    /\ h \in 1..Len(handles)
    /\ handles[h].st = "timer"
    /\ handles' = [handles EXCEPT ![h].st = "resolved"]
    /\ UNCHANGED <<replActive, calls, terminals, hasRanOutsideCurrentDrive, env>>

\* initializeRepl has returned to the call c: it is finished, or it is
\* execute at line 47 and sends its code to the terminal of its resource.
AfterInitializeRepl(c, T) ==
    /\ calls' = [calls EXCEPT ![c].pc = "done"]
    /\ terminals' =
         IF calls[c].op = "execute"
         THEN LET k == ResourceKey(calls[c].res)
              IN  Deliver(GetTerminalService(T, k), k, TextEntry(calls[c].code, "code", c))
         ELSE T

\* line 52-53: the awaited entry has resolved: show the terminal.  A handle
\* only ever resolves true (line 61), so the fall-through to line 56 after a
\* false result is never taken.
ReuseResolved(c) ==
    /\ c \in 1..Len(calls)
    /\ calls[c].pc = "awaitReuse"
    /\ handles[calls[c].h].st = "resolved"
    /\ terminals' = Deliver(terminals, calls[c].key, ShowEntry(c, calls[c].h))
    /\ calls' = [calls EXCEPT ![c].pc = "show"]
    /\ UNCHANGED <<replActive, handles, hasRanOutsideCurrentDrive, env>>

\* line 53-54: show() has completed, initializeRepl returns.
ShowDone(c) ==
    /\ c \in 1..Len(calls)
    /\ calls[c].pc = "show"
    /\ AfterInitializeRepl(c, terminals)
    /\ UNCHANGED <<replActive, handles, hasRanOutsideCurrentDrive, env>>

\* line 70: the handle this call created has resolved, initializeRepl returns.
LaunchResolved(c) ==
    /\ c \in 1..Len(calls)
    /\ calls[c].pc = "awaitLaunch"
    /\ handles[calls[c].h].st = "resolved"
    /\ AfterInitializeRepl(c, terminals)
    /\ UNCHANGED <<replActive, handles, hasRanOutsideCurrentDrive, env>>

\* The terminal of key k is closed: every observer registered at lines 64-68
\* on its terminal service runs line 66.
CloseTerminal(k) ==
    /\ terminals[k].open
    /\ terminals' = [terminals EXCEPT
            ![k].open = FALSE,
            ![k].closedReady = replActive[k] # 0 /\ handles[replActive[k]].st = "resolved"]
    /\ replActive' = IF terminals[k].observers > 0 THEN DeleteEntry(replActive, k)
                     ELSE replActive
    /\ UNCHANGED <<handles, calls, hasRanOutsideCurrentDrive, env>>

----------------------------------------------------------------------------
(* Sessions: initializeRepl and execute under every interleaving *)

\* The sessions do not depend on the environment: one is enough here.
ReplEnv ==
    [isWindows |-> TRUE, rootPath |-> <<RootC>>, interpreter |-> <<InterpreterWin>>,
     pythonPath |-> PythonPathSetting, launchArgs |-> <<ArgI>>, executeInFileDir |-> TRUE]

InitState ==
    /\ replActive = [k \in AllKeys |-> 0]
    /\ handles = << >>
    /\ calls = << >>
    /\ terminals = [k \in AllKeys |-> NoTerminal]
    /\ hasRanOutsideCurrentDrive = FALSE

Init ==
    /\ InitState
    /\ env = ReplEnv

Next ==
    \/ \E r \in ReplResources : InitializeReplCall(r)
    \/ \E code \in Codes, r \in ReplResources : ExecuteCall(code, r)
    \/ \E h \in 1..MaxCalls + 1 : LookupDone(h)
    \/ \E h \in 1..MaxCalls + 1 : TimerFire(h)
    \/ \E c \in 1..MaxCalls + 1 : ReuseResolved(c)
    \/ \E c \in 1..MaxCalls + 1 : ShowDone(c)
    \/ \E c \in 1..MaxCalls + 1 : LaunchResolved(c)
    \/ \E k \in AllKeys : CloseTerminal(k)

Spec == Init /\ [][Next]_vars

\* The interpreter lookup, the timer and the terminal's sends and shows each
\* complete, and a call whose awaited handle has resolved is resumed.
SpecLive ==
    /\ Spec
    /\ \A h \in 1..MaxCalls : WF_vars(LookupDone(h)) /\ WF_vars(TimerFire(h))
    /\ \A c \in 1..MaxCalls :
          WF_vars(ReuseResolved(c)) /\ WF_vars(ShowDone(c)) /\ WF_vars(LaunchResolved(c))

----------------------------------------------------------------------------
(* executeFile, lines 32-39, and setCwdForFileExecution, lines 92-112 *)

\* lines 100-103: the drive of the workspace root, undefined when the root
\* path is not a string.
CurrentDrive(e) ==
    IF e.rootPath # Undefined THEN <<StripFromColon(e.rootPath[1])>> ELSE Undefined

\* line 104
FileDrive(dir) == StripFromColon(dir)

\* A variant without the sticky flag.
NeedsDriveChangeNoFlag(e, dir, flag) == <<FileDrive(dir)>> # CurrentDrive(e)

\* A variant that changes drive for every drive-letter path.
NeedsDriveChangeAlways(e, dir, flag) == TRUE

\* A variant that compares drives only when the workspace root is known.
NeedsDriveChangeKnownRoot(e, dir, flag) ==
    (CurrentDrive(e) # Undefined /\ <<FileDrive(dir)>> # CurrentDrive(e)) \/ flag

\* line 105: fileDrive !== currentDrive || this.hasRanOutsideCurrentDrive
NeedsDriveChange(e, dir, flag) == <<FileDrive(dir)>> # CurrentDrive(e) \/ flag

\* A variant that stores the comparison of this call instead of true.
FlagOnDriveChangeCompared(e, dir, flag) == <<FileDrive(dir)>> # CurrentDrive(e)

\* line 106: this.hasRanOutsideCurrentDrive = true
FlagOnDriveChange(e, dir, flag) == TRUE

\* line 99
IsDrivePath(e, dir) == e.isWindows /\ HasDriveLetter(dir)

\* line 107: `${fileDrive}:`
DriveText(dir) == FileDrive(dir) \o <<":">>

\* line 110: `cd ${fileDirPath.fileToCommandArgumentForPythonExt()}`
CdText(dir) == <<"c", "d", " ">> \o FileToCommandArgument(dir)

\* A variant that ignores the setting.
ExecuteInFileDirAlways(e) == TRUE

\* lines 93-94: pythonSettings.terminal.executeInFileDir
ExecuteInFileDir(e) == e.executeInFileDir

\* A call of executeFile(file): line 33 and setCwdForFileExecution up to its
\* first await.
ExecuteFileCall(file) ==
    /\ Len(calls) < MaxFileCalls
    /\ LET c == Len(calls) + 1
           k == ResourceKey(<<file>>)
           dir == Dirname(env.isWindows, file)                          \* line 97
           T == GetTerminalService(terminals, k)
           rec == [BlankCall EXCEPT !.op = "executeFile", !.res = <<file>>, !.key = k,
                                    !.flagBefore = hasRanOutsideCurrentDrive,
                                    !.mark = Len(terminals[k].sent), !.seen = <<env>>]
       IN  IF ~ExecuteInFileDir(env) \/ Len(dir) = 0                    \* lines 94, 98
           THEN /\ calls' = Append(calls, [rec EXCEPT !.pc = "lookup",
                                               !.flagAfter = hasRanOutsideCurrentDrive])
                /\ UNCHANGED <<terminals, hasRanOutsideCurrentDrive>>
           ELSE IF IsDrivePath(env, dir)
                   /\ NeedsDriveChange(env, dir, hasRanOutsideCurrentDrive)
           THEN /\ hasRanOutsideCurrentDrive' =                         \* line 106
                        FlagOnDriveChange(env, dir, hasRanOutsideCurrentDrive)
                /\ terminals' = Deliver(T, k, TextEntry(DriveText(dir), "drive", c))
                /\ calls' = Append(calls, [rec EXCEPT !.pc = "cd",
                        !.flagAfter = FlagOnDriveChange(env, dir, hasRanOutsideCurrentDrive)])
           ELSE /\ terminals' = Deliver(T, k, TextEntry(CdText(dir), "cd", c))
                /\ calls' = Append(calls, [rec EXCEPT !.pc = "lookup",
                                               !.flagAfter = hasRanOutsideCurrentDrive])
                /\ UNCHANGED hasRanOutsideCurrentDrive
    /\ UNCHANGED <<replActive, handles, env>>

\* line 110 after the drive change of line 107 has been sent.
FileCd(c) ==
    /\ c \in 1..Len(calls)
    /\ calls[c].pc = "cd"
    /\ LET k == calls[c].key
           dir == Dirname(env.isWindows, calls[c].res[1])
       IN  terminals' = Deliver(GetTerminalService(terminals, k), k,
                                TextEntry(CdText(dir), "cd", c))
    /\ calls' = [calls EXCEPT ![c].pc = "lookup"]
    /\ UNCHANGED <<replActive, handles, hasRanOutsideCurrentDrive, env>>

\* lines 34-38: setCwdForFileExecution has returned and the interpreter lookup
\* of getExecuteFileArgs has completed: the file's command is sent.
FileLookupDone(c) ==
    /\ c \in 1..Len(calls)
    /\ calls[c].op = "executeFile"
    /\ calls[c].pc = "lookup"
    /\ LET k == calls[c].key
           info == GetExecutableInfo(env, <<FileToCommandArgument(calls[c].res[1])>>)
       IN  /\ terminals' = Deliver(GetTerminalService(terminals, k), k,
                                   CommandEntry(info, "file", c, 0))
           /\ calls' = [calls EXCEPT ![c].pc = "done", ![c].info = info]
    /\ UNCHANGED <<replActive, handles, hasRanOutsideCurrentDrive, env>>

FileEnvs ==
    {[isWindows |-> w, rootPath |-> r, interpreter |-> <<InterpreterWin>>,
      pythonPath |-> PythonPathSetting, launchArgs |-> <<ArgI>>, executeInFileDir |-> d] :
        w \in BOOLEAN, r \in {Undefined, <<RootC>>}, d \in BOOLEAN}

InitFile ==
    /\ InitState
    /\ env \in FileEnvs

NextFile ==
    \/ \E f \in Files : ExecuteFileCall(f)
    \/ \E c \in 1..MaxFileCalls + 1 : FileCd(c)
    \/ \E c \in 1..MaxFileCalls + 1 : FileLookupDone(c)

SpecFile == InitFile /\ [][NextFile]_vars

\* The user switches the execute-in-file-directory setting.
ChangeExecuteInFileDir ==
    /\ env' = [env EXCEPT !.executeInFileDir = ~@]
    /\ UNCHANGED <<replActive, handles, calls, terminals, hasRanOutsideCurrentDrive>>

NextFileSettings ==
    \/ \E f \in Files : ExecuteFileCall(f)
    \/ \E c \in 1..MaxFileCalls + 1 : FileCd(c)
    \/ \E c \in 1..MaxFileCalls + 1 : FileLookupDone(c)
    \/ ChangeExecuteInFileDir

SpecFileSettings == InitFile /\ [][NextFileSettings]_vars

----------------------------------------------------------------------------
(* getExecutableInfo as a call of its own, lines 73-80 *)

\* lines 74-75: the settings are read and the interpreter lookup is started.
InfoCall(args) ==
    /\ Len(calls) < MaxInfoCalls
    /\ calls' = Append(calls, [BlankCall EXCEPT !.op = "getExecutableInfo",
                                                !.args = args, !.pc = "lookup",
                                                !.seen = <<env>>])
    /\ UNCHANGED <<replActive, handles, terminals, hasRanOutsideCurrentDrive, env>>

\* lines 75-79: the lookup answers with the interpreter active now.  The
\* path and the launch arguments are read at lines 76 and 78, after the
\* await, from the settings object obtained at line 74: they are those of
\* the call when the configuration service gave a snapshot, and those of now
\* when it gave the object it keeps up to date.  seen records what was read.
InfoLookupDone(c) ==
    /\ c \in 1..Len(calls)
    /\ calls[c].op = "getExecutableInfo"
    /\ calls[c].pc = "lookup"
    /\ \E settings \in {calls[c].seen[1], env} :
          LET e == [settings EXCEPT !.interpreter = env.interpreter]
          IN  calls' = [calls EXCEPT ![c].pc = "done", ![c].seen = <<e>>,
                                     ![c].info = GetExecutableInfo(e, calls[c].args)]
    /\ UNCHANGED <<replActive, handles, terminals, hasRanOutsideCurrentDrive, env>>

InfoEnvs ==
    {[isWindows |-> w, rootPath |-> <<RootC>>, interpreter |-> i,
      pythonPath |-> PythonPathSetting, launchArgs |-> l, executeInFileDir |-> TRUE] :
        w \in BOOLEAN, i \in {Undefined, <<InterpreterWin>>, <<InterpreterUnix>>},
        l \in {<< >>, <<ArgI>>}}

ExtraArgs == {<< >>, <<ArgM, ArgI>>, <<ArgPath>>}

\* The user selects another interpreter or edits the launch arguments.
ChangeEnv(e) ==
    /\ e # env
    /\ e.isWindows = env.isWindows
    /\ env' = e
    /\ UNCHANGED <<replActive, handles, calls, terminals, hasRanOutsideCurrentDrive>>

InitInfo ==
    /\ InitState
    /\ env \in InfoEnvs

NextInfo ==
    \/ \E a \in ExtraArgs : InfoCall(a)
    \/ \E c \in 1..MaxInfoCalls + 1 : InfoLookupDone(c)
    \/ \E e \in InfoEnvs : ChangeEnv(e)

SpecInfo == InitInfo /\ [][NextInfo]_vars

----------------------------------------------------------------------------
(* executeFile while sessions are launched, reused and closed *)

\* The files on the drives of the session environment.
SessionFiles == {FileC, FileD}

NextFileSessions ==
    \/ \E r \in ReplResources : InitializeReplCall(r)
    \/ \E h \in 1..MaxCalls + 1 : LookupDone(h)
    \/ \E h \in 1..MaxCalls + 1 : TimerFire(h)
    \/ \E c \in 1..MaxCalls + 1 : ReuseResolved(c)
    \/ \E c \in 1..MaxCalls + 1 : ShowDone(c)
    \/ \E c \in 1..MaxCalls + 1 : LaunchResolved(c)
    \/ \E k \in AllKeys : CloseTerminal(k)
    \/ \E f \in SessionFiles : ExecuteFileCall(f)
    \/ \E c \in 1..MaxFileCalls + 1 : FileCd(c)
    \/ \E c \in 1..MaxFileCalls + 1 : FileLookupDone(c)

SpecFileSessions == Init /\ [][NextFileSessions]_vars

----------------------------------------------------------------------------
(* Properties *)

CallIds == 1..Len(calls)
HandleIds == 1..Len(handles)
Sent(k) == terminals[k].sent
SentIds(k) == 1..Len(Sent(k))

\* The call has run the first lines of initializeRepl.
Entered(c) == calls[c].h # 0

\* The start-REPL commands that the launches of lifetime e of key k have issued.
StartsOf(k, e) ==
    {i \in SentIds(k) : Sent(k)[i].by = "repl" /\ handles[Sent(k)[i].h].life = e}

\* C1: when initializeRepl runs again for a key after a launch for that key,
\* with no close of the key's terminal in between (in particular before the
\* launch's timer has fired), the later call awaits the handle the launch
\* stored and launches nothing, and the launch issues exactly one start-REPL
\* command: none while its interpreter lookup is pending, one from then on.
C1_IdempotentLaunch ==
    \A c1 \in CallIds : \A c2 \in CallIds :
        ( /\ c1 < c2
          /\ Entered(c1) /\ Entered(c2)
          /\ calls[c1].launched
          /\ calls[c1].key = calls[c2].key
          /\ calls[c1].life = calls[c2].life )
        => /\ calls[c2].h = calls[c1].h
           /\ ~calls[c2].launched
           /\ Cardinality(StartsOf(calls[c1].key, calls[c1].life))
                = IF handles[calls[c1].h].st = "lookup" THEN 0 ELSE 1

\* C1 witness: a second initializeRepl for the same key is awaiting the first
\* call's handle while the warm-up timer is still running, and one start-REPL
\* command has been sent.
C1_Witness ==
    \E c1 \in CallIds : \E c2 \in CallIds :
        /\ c1 < c2
        /\ calls[c1].op = "initializeRepl" /\ calls[c2].op = "initializeRepl"
        /\ calls[c1].res = <<FileC>> /\ calls[c2].res = <<FileC>>
        /\ calls[c1].launched
        /\ calls[c2].pc = "awaitReuse"
        /\ calls[c2].h = calls[c1].h
        /\ handles[calls[c1].h].st = "timer"
        /\ Cardinality({i \in SentIds(FileC) : Sent(FileC)[i].by = "repl"}) = 1

\* C2: during one lifetime of the terminal of a key, at most one start-REPL
\* command is sent, and exactly one once a launch made in that lifetime has
\* completed while the terminal is still open.
C2_OneStartPerLifetime ==
    \A k \in AllKeys : \A e \in 1..terminals[k].life :
        LET n == Cardinality({i \in SentIds(k) :
                     Sent(k)[i].by = "repl" /\ Sent(k)[i].open /\ Sent(k)[i].life = e})
        IN  /\ n <= 1
            /\ ( /\ e = terminals[k].life
                 /\ terminals[k].open
                 /\ \E h \in HandleIds : /\ handles[h].key = k
                                         /\ handles[h].life = e
                                         /\ handles[h].st = "resolved" )
               => n = 1

\* C3: an execute(code, K) with non-blank code that starts after K's session
\* became ready and K's terminal was closed sends a start-REPL command to K's
\* terminal after it started and before it sends its code.
C3_FreshStartAfterClose ==
    \A c \in CallIds :
        ( /\ calls[c].op = "execute"
          /\ calls[c].reopen
          /\ calls[c].pc = "done"
          /\ ~IsBlankCode(calls[c].code) )
        => LET k == ResourceKey(calls[c].res)
           IN  \E j \in SentIds(k) :
                 /\ Sent(k)[j].by = "code" /\ Sent(k)[j].call = c
                 /\ \E i \in SentIds(k) :
                      /\ calls[c].mark < i /\ i < j
                      /\ Sent(k)[i].by = "repl"

\* C4: a call made for a resource reads, awaits and creates only the registry
\* entry of that resource's own key.
C4_PerKeyIsolation ==
    \A c \in CallIds :
        Entered(c) => /\ calls[c].key = ResourceKey(calls[c].res)
                      /\ handles[calls[c].h].key = ResourceKey(calls[c].res)

\* C5: whenever execute has sent code to the terminal of key K, the handle it
\* awaited is a handle of K that has resolved, and that handle's start-REPL
\* command was sent to K's terminal before the code.
C5_CodeAfterOwnSession ==
    \A k \in AllKeys : \A j \in SentIds(k) :
        Sent(k)[j].by = "code"
        => LET h == calls[Sent(k)[j].call].h
           IN  /\ handles[h].key = k
               /\ handles[h].st = "resolved"
               /\ \E i \in 1..(j - 1) : Sent(k)[i].by = "repl" /\ Sent(k)[i].h = h

AllWhiteSpace(code) == \A i \in 1..Len(code) : code[i] \in WhiteSpace

\* C6: a call of execute whose code is empty or all white space returns at
\* once and changes nothing: nothing is sent, no terminal is fetched, no
\* handle is created, no observer is registered, the registry and
\* hasRanOutsideCurrentDrive stay as they are.
C6_BlankCodeNoOp ==
    [][ ( /\ Len(calls') = Len(calls) + 1
          /\ calls'[Len(calls')].op = "execute"
          /\ AllWhiteSpace(calls'[Len(calls')].code) )
        => /\ calls'[Len(calls')].pc = "done"
           /\ UNCHANGED <<replActive, handles, terminals, hasRanOutsideCurrentDrive, env>>
      ]_vars

\* C6 witness: a white-space-only execute has returned while a launch for the
\* same key is pending, and nothing has been sent to that key's terminal.
C6_Witness ==
    /\ \E c \in CallIds : /\ calls[c].op = "execute" /\ calls[c].code = CodeWhite
                          /\ calls[c].pc = "done"
                          /\ \E h \in HandleIds : handles[h].key = ResourceKey(calls[c].res)
                                                  /\ Unresolved(h)
                          /\ Sent(ResourceKey(calls[c].res)) = << >>

\* What the call c has sent to the terminal of its key, in order.
SentBy(c) ==
    LET Own(e) == e.call = c
    IN  SelectSeq(Sent(calls[c].key), Own)

\* A path that starts with a drive letter and a colon, and its drive letter.
StartsWithDrive(p) == Len(p) >= 2 /\ p[1] \in Letters /\ p[2] = ":"
DriveLetter(p) == <<p[1]>>

\* The workspace root is known and the file is on another drive.
OffRootDrive(file) ==
    \/ env.rootPath = Undefined
    \/ DriveLetter(file) # DriveLetter(env.rootPath[1])

\* C7: on Windows with execute-in-file-directory on, once an executeFile has
\* run a file whose drive differs from the workspace root's drive, every later
\* executeFile of a drive-letter path sends "<its own drive>:" as the first
\* thing it sends, and its cd right after it.
C7_DriveStickiness ==
    \A c1 \in CallIds : \A c2 \in CallIds :
        ( /\ c1 < c2
          /\ env.isWindows /\ env.executeInFileDir
          /\ calls[c1].op = "executeFile" /\ calls[c2].op = "executeFile"
          /\ StartsWithDrive(calls[c1].res[1]) /\ StartsWithDrive(calls[c2].res[1])
          /\ OffRootDrive(calls[c1].res[1]) )
        => LET out == SentBy(c2)
           IN  /\ Len(out) >= 1
               /\ out[1].kind = "text"
               /\ out[1].text = DriveLetter(calls[c2].res[1]) \o <<":">>
               /\ calls[c2].pc # "cd" => ( /\ Len(out) >= 2
                                           /\ out[2].kind = "text"
                                           /\ SubSeq(out[2].text, 1, 3) = <<"c", "d", " ">> )
               /\ \A i \in 3..Len(out) : out[i].kind = "command"

\* C7 witness: with the workspace root on C:, a file on D: was executed and
\* then a file on C:, which sent "C:" and then its cd.
C7_Witness ==
    \E c1 \in CallIds : \E c2 \in CallIds :
        /\ c1 < c2
        /\ env.isWindows /\ env.executeInFileDir /\ env.rootPath = <<RootC>>
        /\ calls[c1].op = "executeFile" /\ calls[c1].res = <<FileD>>
        /\ calls[c2].op = "executeFile" /\ calls[c2].res = <<FileC>>
        /\ calls[c2].pc = "done"
        /\ Len(SentBy(c2)) = 3
        /\ SentBy(c2)[1].text = <<"C", ":">>

\* C8: with execute-in-file-directory on, a known workspace root and
\* hasRanOutsideCurrentDrive false at the call, executeFile of a file on the
\* root's drive sends no drive change: it sends its cd, then its command, and
\* leaves the flag false.
C8_NoDriveChange ==
    \A c \in CallIds :
        ( /\ calls[c].op = "executeFile"
          /\ env.executeInFileDir
          /\ env.rootPath # Undefined
          /\ ~calls[c].flagBefore
          /\ StartsWithDrive(calls[c].res[1])
          /\ ~OffRootDrive(calls[c].res[1]) )
        => LET out == SentBy(c)
           IN  /\ ~calls[c].flagAfter
               /\ calls[c].pc \in {"lookup", "done"}
               /\ Len(out) = IF calls[c].pc = "done" THEN 2 ELSE 1
               /\ out[1].kind = "text"
               /\ SubSeq(out[1].text, 1, 3) = <<"c", "d", " ">>
               /\ Len(out) = 2 => /\ out[2].kind = "command"
                                  /\ out[2].args[Len(out[2].args)]
                                       = FileToCommandArgument(calls[c].res[1])

\* C8 witness: on Windows with the root on C:, a file on C: has been executed
\* with cd and command only, and the flag is still false.
C8_Witness ==
    \E c \in CallIds :
        /\ env.isWindows /\ env.executeInFileDir /\ env.rootPath = <<RootC>>
        /\ calls[c].op = "executeFile" /\ calls[c].res = <<FileC>>
        /\ calls[c].pc = "done"
        /\ Len(SentBy(c)) = 2
        /\ ~hasRanOutsideCurrentDrive

\* The path with every backslash written as a slash.
WithSlashes(p) == [i \in 1..Len(p) |-> IF p[i] = "\\" THEN "/" ELSE p[i]]

\* C9: the command of a finished getExecutableInfo call is the active
\* interpreter's path when the lookup of that call found one and the
\* configured path that the call read otherwise (separators written as '/'
\* on Windows, as they are elsewhere), and its args are the launch arguments
\* that the call read followed by the call's extra arguments in order.  What
\* a call reads is its own: the settings of its start or those current when
\* its lookup completes, never the result of another call.
C9_ExecutableInfo ==
    \A c \in CallIds :
        (calls[c].op = "getExecutableInfo" /\ calls[c].pc = "done")
        => LET e == calls[c].seen[1]
               chosen == IF Len(e.interpreter) = 1 THEN e.interpreter[1] ELSE e.pythonPath
               got == calls[c].info
               n == Len(e.launchArgs)
           IN  /\ got.command = IF e.isWindows THEN WithSlashes(chosen) ELSE chosen
               /\ Len(got.args) = n + Len(calls[c].args)
               /\ \A i \in 1..n : got.args[i] = e.launchArgs[i]
               /\ \A i \in 1..Len(calls[c].args) : got.args[n + i] = calls[c].args[i]

\* C9 witness: two finished calls with the same extra arguments, the first
\* made with no active interpreter, the second with one and with other launch
\* arguments: the first returned the configured path, the second the
\* interpreter's, each with its own launch arguments first.
C9_Witness ==
    \E c1 \in CallIds : \E c2 \in CallIds :
        /\ c1 < c2
        /\ calls[c1].pc = "done" /\ calls[c2].pc = "done"
        /\ calls[c1].args = <<ArgM, ArgI>> /\ calls[c2].args = <<ArgM, ArgI>>
        /\ calls[c1].seen[1].interpreter = Undefined
        /\ calls[c2].seen[1].interpreter = <<InterpreterUnix>>
        /\ calls[c1].info = [command |-> PythonPathSetting, args |-> <<ArgI, ArgM, ArgI>>]
        /\ calls[c2].info = [command |-> InterpreterUnix, args |-> <<ArgM, ArgI>>]

\* C10 as stated: at most one unresolved handle per key, stored or not.
C10_OneUnresolvedPerKey ==
    \A k \in AllKeys :
        Cardinality({h \in HandleIds : handles[h].key = k /\ Unresolved(h)}) <= 1

\* C10 amended: at most one handle is created per key and terminal lifetime;
\* an unresolved handle that is not the registered one belongs to a lifetime
\* that a close has ended; and a call that finds an entry for its key awaits
\* that entry and creates no handle, while a call that finds none creates one.
C10_OneLaunchPerLifetime ==
    /\ \A h1 \in HandleIds : \A h2 \in HandleIds :
          (handles[h1].key = handles[h2].key /\ handles[h1].life = handles[h2].life)
          => h1 = h2
    /\ \A h \in HandleIds :
          (Unresolved(h) /\ replActive[handles[h].key] # h)
          => \/ handles[h].life < terminals[handles[h].key].life
             \/ ~terminals[handles[h].key].open
    /\ \A c \in CallIds :
          Entered(c) => IF calls[c].found # 0
                        THEN calls[c].h = calls[c].found /\ ~calls[c].launched
                        ELSE calls[c].launched /\ calls[c].h \in HandleIds

\* C10 witness: the terminal was closed while a launch was warming up and a
\* new call for the same key has created a second handle: both are unresolved,
\* the new one is registered, the stale one is not.
C10_Witness ==
    \E h1 \in HandleIds : \E h2 \in HandleIds :
        /\ h1 < h2
        /\ handles[h1].key = handles[h2].key
        /\ handles[h1].st = "timer" /\ Unresolved(h2)
        /\ replActive[handles[h2].key] = h2
        /\ \E c \in CallIds : /\ calls[c].pc = "awaitLaunch" /\ calls[c].h = h2
                              /\ calls[c].found = 0
        /\ \E c \in CallIds : calls[c].pc = "awaitLaunch" /\ calls[c].h = h1

\* C11: with execute-in-file-directory on, an executeFile call sends, in
\* this order, at most one drive change, one cd and its command, and the
\* thing delivered to the terminal immediately before its command is its own
\* cd, whatever other executeFile calls on that terminal are in progress.
C11_CdImmediatelyBeforeCommand ==
    \A c \in CallIds :
        (calls[c].op = "executeFile" /\ env.executeInFileDir)
        => LET out == SentBy(c)
               s == Sent(calls[c].key)
           IN  /\ [i \in 1..Len(out) |-> out[i].by]
                     \in {<<"drive">>, <<"drive", "cd">>, <<"drive", "cd", "file">>,
                          <<"cd">>, <<"cd", "file">>}
               /\ \A j \in 1..Len(s) :
                     (s[j].call = c /\ s[j].by = "file")
                     => /\ j > 1
                        /\ s[j - 1].call = c
                        /\ s[j - 1].by = "cd"

\* C12: an executeFile call that finds execute-in-file-directory off sends
\* no drive change and no cd and leaves hasRanOutsideCurrentDrive as it found
\* it, true or false, on either platform and for every file: all it sends is
\* its command.
C12_NoCwdWhenDisabled ==
    \A c \in CallIds :
        (calls[c].op = "executeFile" /\ ~calls[c].seen[1].executeInFileDir)
        => LET out == SentBy(c)
           IN  /\ calls[c].flagAfter = calls[c].flagBefore
               /\ calls[c].pc \in {"lookup", "done"}
               /\ Len(out) = IF calls[c].pc = "done" THEN 1 ELSE 0
               /\ \A i \in 1..Len(out) : out[i].kind = "command" /\ out[i].by = "file"

\* C12 witness: on Windows, after a file on another drive has set the flag,
\* the setting was switched off and a drive-letter file was executed: it sent
\* its command only and the flag is still true.
C12_Witness ==
    \E c \in CallIds :
        /\ calls[c].op = "executeFile" /\ calls[c].res = <<FileD>>
        /\ calls[c].seen[1].isWindows
        /\ ~calls[c].seen[1].executeInFileDir
        /\ calls[c].flagBefore
        /\ calls[c].pc = "done"
        /\ Len(SentBy(c)) = 1
        /\ hasRanOutsideCurrentDrive

\* The drive-change texts sent so far.
DriveTexts ==
    {<<k, i>> \in AllKeys \X (1..(2 * MaxFileCalls + 2)) :
        i <= Len(Sent(k)) /\ Sent(k)[i].by = "drive"}

\* C13: hasRanOutsideCurrentDrive is false until a drive change is sent, no
\* step sets it back to false, and the step that sets it is a step of an
\* executeFile call that sends a drive-change text in that same step.
C13_FlagMonotonic ==
    [][ /\ hasRanOutsideCurrentDrive => DriveTexts # {}
        /\ hasRanOutsideCurrentDrive => hasRanOutsideCurrentDrive'
        /\ (hasRanOutsideCurrentDrive' /\ ~hasRanOutsideCurrentDrive)
           => /\ Len(calls') = Len(calls) + 1
              /\ calls'[Len(calls')].op = "executeFile"
              /\ LET k == calls'[Len(calls')].key
                 IN  /\ Len(terminals'[k].sent) = Len(terminals[k].sent) + 1
                     /\ terminals'[k].sent[Len(terminals'[k].sent)].by = "drive"
                     /\ terminals'[k].sent[Len(terminals'[k].sent)].call = Len(calls')
      ]_vars

\* C13 witness: the flag was set by a file off the root's drive, and a later
\* file on the root's drive, which changed drive only because of the flag,
\* has finished with the flag still true.
C13_Witness ==
    \E c \in CallIds :
        /\ calls[c].op = "executeFile" /\ calls[c].res = <<FileC>>
        /\ calls[c].seen[1].isWindows /\ calls[c].seen[1].executeInFileDir
        /\ calls[c].seen[1].rootPath = <<RootC>>
        /\ calls[c].flagBefore
        /\ calls[c].pc = "done"
        /\ Len(SentBy(c)) = 3
        /\ hasRanOutsideCurrentDrive
        /\ Cardinality(DriveTexts) >= 2

\* The shows that the call c has made on the terminal of its key.
ShowsBy(c) ==
    {i \in SentIds(calls[c].key) :
        Sent(calls[c].key)[i].kind = "show" /\ Sent(calls[c].key)[i].call = c}

\* C14: a call of initializeRepl that found a registry entry awaits that entry
\* and, once it has resolved, shows the terminal exactly once; it creates no
\* handle, registers no close observer and sends no start-REPL command, so the
\* handles, the observers and the start-REPL commands are those of the calls
\* that launched.  A call that launched never shows the terminal.
C14_ReuseShowsOnly ==
    /\ \A c \in CallIds :
          Entered(c)
          => /\ calls[c].launched = (calls[c].found = 0)
             /\ calls[c].found # 0
                => /\ calls[c].h = calls[c].found
                   /\ calls[c].pc \in {"awaitReuse", "show", "done"}
                   /\ calls[c].pc = "awaitReuse" => ShowsBy(c) = {}
                   /\ calls[c].pc \in {"show", "done"}
                      => /\ Cardinality(ShowsBy(c)) = 1
                         /\ handles[calls[c].h].st = "resolved"
             /\ calls[c].launched
                => /\ ShowsBy(c) = {}
                   /\ calls[c].pc \in {"awaitLaunch", "done"}
    /\ Len(handles) = Cardinality({c \in CallIds : calls[c].launched})
    /\ \A k \in AllKeys :
          /\ terminals[k].observers = Cardinality({h \in HandleIds : handles[h].key = k})
          /\ \A h \in HandleIds :
                Cardinality({i \in SentIds(k) : Sent(k)[i].by = "repl" /\ Sent(k)[i].h = h})
                    = IF handles[h].key = k /\ handles[h].st # "lookup" THEN 1 ELSE 0
          /\ \A i \in SentIds(k) : Sent(k)[i].by = "repl" => Sent(k)[i].call = 0

\* C14 witness: an initializeRepl that found the ready session of its key has
\* returned after one show, with one handle, one observer and one start-REPL
\* command for that key.
C14_Witness ==
    \E c \in CallIds :
        /\ calls[c].op = "initializeRepl" /\ calls[c].res = <<FileC>>
        /\ calls[c].found # 0
        /\ calls[c].pc = "done"
        /\ Cardinality(ShowsBy(c)) = 1
        /\ Len(handles) = 1
        /\ replActive[FileC] = calls[c].found
        /\ terminals[FileC].observers = 1
        /\ Cardinality({i \in SentIds(FileC) : Sent(FileC)[i].by = "repl"}) = 1

\* The code texts that the call c has sent to the terminal of its resource.
CodeBy(c) ==
    {i \in SentIds(ResourceKey(calls[c].res)) :
        /\ Sent(ResourceKey(calls[c].res))[i].by = "code"
        /\ Sent(ResourceKey(calls[c].res))[i].call = c}

\* C15: a closed terminal has no registry entry, whatever the state of the
\* handle that was registered; a registered handle was created in the current
\* lifetime of its key's terminal; a handle whose timer is running can always
\* resolve, closed or not; every call awaits a handle created in the terminal
\* lifetime in which the call started, so a call that starts after a close
\* awaits a handle made after that close; and a call that awaited a handle
\* and has returned did so after the handle resolved, having sent its code
\* once if it is an execute.
C15_CloseDuringWarmUp ==
    /\ \A k \in AllKeys :
          /\ ~terminals[k].open => replActive[k] = 0
          /\ replActive[k] # 0
             => /\ handles[replActive[k]].key = k
                /\ handles[replActive[k]].life = terminals[k].life
    /\ \A h \in HandleIds : handles[h].st = "timer" => ENABLED TimerFire(h)
    /\ \A c \in CallIds :
          Entered(c)
          => /\ handles[calls[c].h].key = calls[c].key
             /\ handles[calls[c].h].life = calls[c].life
             /\ calls[c].launched
                => \A d \in CallIds : (d < c /\ Entered(d)) => calls[d].h # calls[c].h
             /\ calls[c].pc = "done"
                => /\ handles[calls[c].h].st = "resolved"
                   /\ Cardinality(CodeBy(c)) = IF calls[c].op = "execute" THEN 1 ELSE 0
             /\ calls[c].pc # "done" => CodeBy(c) = {}

\* C15 witness: the terminal of the key was closed once while the first
\* handle was unresolved; the execute that launched that handle has returned
\* and sent its code after the close, and a later initializeRepl has made and
\* registered a second handle.
C15_Witness ==
    \E c \in CallIds : \E d \in CallIds :
        /\ c < d
        /\ calls[c].op = "execute" /\ calls[c].res = Undefined /\ calls[c].launched
        /\ calls[d].op = "initializeRepl" /\ calls[d].res = Undefined /\ calls[d].launched
        /\ handles[calls[c].h].life = 1
        /\ calls[d].life = 2
        /\ terminals[EmptyString].life = 2
        /\ terminals[EmptyString].open
        /\ ~terminals[EmptyString].closedReady
        /\ handles[calls[c].h].st = "resolved"
        /\ calls[c].pc = "done"
        /\ \E i \in CodeBy(c) : Sent(EmptyString)[i].life = 2
        /\ calls[d].h # calls[c].h
        /\ replActive[EmptyString] = calls[d].h

\* C16: every call of initializeRepl or execute that has started eventually
\* returns, whatever other calls and closes of terminals happen meanwhile.
C16_CallsReturn ==
    \A c \in 1..MaxCalls :
        (c \in CallIds) ~> (c \in CallIds /\ calls[c].pc = "done")

\* C16 witness: a launch and a call awaiting the launch's handle have both
\* returned although the terminal was closed before the handle resolved and
\* has stayed closed.
C16_Witness ==
    \E c \in CallIds : \E d \in CallIds :
        /\ c < d
        /\ calls[c].launched
        /\ calls[d].found = calls[c].h
        /\ calls[c].pc = "done" /\ calls[d].pc = "done"
        /\ calls[c].op = "initializeRepl" /\ calls[d].op = "initializeRepl"
        /\ ~terminals[calls[c].key].open
        /\ terminals[calls[c].key].life = 1
        /\ ~terminals[calls[c].key].closedReady
        /\ replActive[calls[c].key] = 0

\* The commands that the call c has sent to the terminal of its key.
CommandsBy(c) ==
    {i \in SentIds(calls[c].key) :
        Sent(calls[c].key)[i].kind = "command" /\ Sent(calls[c].key)[i].call = c}

\* The step is taken by a call of executeFile: it starts one or moves one on.
FileStep ==
    \/ Len(calls') = Len(calls) + 1 /\ calls'[Len(calls')].op = "executeFile"
    \/ \E c \in CallIds : calls[c].op = "executeFile" /\ calls'[c] # calls[c]

\* What holds of the executeFile calls in a state: they hold no handle, found
\* none and launched none; each has sent no command before it is done and one
\* when it is done, with the launch arguments followed by the quoted path of
\* its file; and the start-REPL commands are those of the handles.
FileCallsState ==
    /\ \A c \in CallIds :
          calls[c].op = "executeFile"
          => /\ calls[c].h = 0 /\ calls[c].found = 0 /\ ~calls[c].launched
             /\ calls[c].pc \in {"cd", "lookup", "done"}
             /\ Cardinality(CommandsBy(c)) = IF calls[c].pc = "done" THEN 1 ELSE 0
             /\ \A i \in CommandsBy(c) :
                   /\ Sent(calls[c].key)[i].by = "file"
                   /\ Sent(calls[c].key)[i].command = ExecCommand(env)
                   /\ Sent(calls[c].key)[i].args
                        = env.launchArgs \o <<FileToCommandArgument(calls[c].res[1])>>
    /\ \A k \in AllKeys : \A i \in SentIds(k) :
          Sent(k)[i].by = "repl"
          => /\ Sent(k)[i].h \in HandleIds
             /\ Sent(k)[i].call = 0
             /\ Sent(k)[i].args = env.launchArgs

\* C17: a step of an executeFile call leaves the registry, the handles and
\* the close observers as they are and is enabled whatever the state of a
\* launch for the same key; the call sends exactly one command, when it
\* finishes, whose arguments are the launch arguments followed by the quoted
\* path of the file, and no start-REPL command.
C17_ExecuteFileFrame ==
    [][ /\ FileStep
           => /\ UNCHANGED <<replActive, handles>>
              /\ \A k \in AllKeys : terminals'[k].observers = terminals[k].observers
        /\ FileCallsState'
      ]_vars

\* C17 witness: executeFile of a file has finished with its one command while
\* the launch registered for the same key is still warming up.
C17_Witness ==
    \E c \in CallIds :
        /\ calls[c].op = "executeFile" /\ calls[c].res = <<FileC>>
        /\ calls[c].pc = "done"
        /\ Cardinality(CommandsBy(c)) = 1
        /\ \A i \in CommandsBy(c) :
              Sent(FileC)[i].args = <<ArgI, FileToCommandArgument(FileC)>>
        /\ replActive[FileC] # 0
        /\ handles[replActive[FileC]].st = "timer"
        /\ \E i \in SentIds(FileC) : Sent(FileC)[i].by = "repl"

\* C18: on Windows with execute-in-file-directory on and no workspace root
\* path, every executeFile of a drive-letter path sends "<its drive>:" as the
\* first thing it sends and leaves hasRanOutsideCurrentDrive true, whatever
\* the flag was at the call.
C18_UnknownRootChangesDrive ==
    \A c \in CallIds :
        ( /\ calls[c].op = "executeFile"
          /\ calls[c].seen[1].isWindows
          /\ calls[c].seen[1].executeInFileDir
          /\ calls[c].seen[1].rootPath = Undefined
          /\ StartsWithDrive(calls[c].res[1]) )
        => LET out == SentBy(c)
           IN  /\ Len(out) >= 1
               /\ out[1].kind = "text" /\ out[1].by = "drive"
               /\ out[1].text = DriveLetter(calls[c].res[1]) \o <<":">>
               /\ \A i \in 2..Len(out) : out[i].by # "drive"
               /\ calls[c].flagAfter
               /\ hasRanOutsideCurrentDrive

\* C18 witness: with no workspace root path the very first executeFile, of a
\* file on C:, has sent "C:" with the flag false at the call, and has finished
\* with the flag true.
C18_Witness ==
    /\ Len(calls) >= 1
    /\ calls[1].op = "executeFile" /\ calls[1].res = <<FileC>>
    /\ calls[1].seen[1].isWindows /\ calls[1].seen[1].executeInFileDir
    /\ calls[1].seen[1].rootPath = Undefined
    /\ ~calls[1].flagBefore
    /\ calls[1].pc = "done"
    /\ Len(SentBy(1)) = 3
    /\ SentBy(1)[1].text = <<"C", ":">>
    /\ hasRanOutsideCurrentDrive

\* C19: the command of a finished getExecutableInfo call on Windows has the
\* length of the chosen interpreter path, a '/' wherever that path has a
\* backslash and the path's own character everywhere else, so it contains no
\* backslash; on another platform it is the chosen path itself, backslashes
\* included; and the args are the launch arguments and the extra arguments
\* as given, backslashes included.
C19_SeparatorNormalization ==
    \A c \in CallIds :
        (calls[c].op = "getExecutableInfo" /\ calls[c].pc = "done")
        => LET e == calls[c].seen[1]
               chosen == IF e.interpreter # Undefined THEN e.interpreter[1] ELSE e.pythonPath
               cmd == calls[c].info.command
           IN  /\ e.isWindows
                  => /\ Len(cmd) = Len(chosen)
                     /\ \A i \in 1..Len(cmd) :
                           /\ cmd[i] # "\\"
                           /\ chosen[i] = "\\" => cmd[i] = "/"
                           /\ chosen[i] # "\\" => cmd[i] = chosen[i]
               /\ ~e.isWindows => cmd = chosen
               /\ calls[c].info.args = e.launchArgs \o calls[c].args

\* C19 witness: on Windows a call made with an extra argument that contains a
\* backslash, for an interpreter path that contains one, has returned the
\* path with a '/' in its place and the argument as it was given.
C19_Witness ==
    \E c \in CallIds :
        /\ calls[c].op = "getExecutableInfo" /\ calls[c].pc = "done"
        /\ calls[c].seen[1].isWindows
        /\ calls[c].seen[1].interpreter = <<InterpreterWin>>
        /\ calls[c].args = <<ArgPath>>
        /\ calls[c].info.command = <<"C", ":", "/", "p">>
        /\ calls[c].info.args = calls[c].seen[1].launchArgs \o <<ArgPath>>
        /\ ArgPath[2] = "\\"

====
